---- MODULE Spec2Model ----
(***************************************************************************)
(* texture-rs: the GameMaster engine (src/src/master.rs), its scenario     *)
(* Loader (src/src/scenario.rs), the BasicState name fields                *)
(* (src/src/state.rs) and the handlers of the example game                 *)
(* (src/examples/example.rs).                                              *)
(*                                                                         *)
(* Strings the engine inspects (input lines, command names) are sequences  *)
(* of one-character strings, so that trim() is computed, not assumed.      *)
(* Scenario objects (Rc<RefCell<Scenario<S>>>) are identified by name.     *)
(***************************************************************************)
EXTENDS Integers, Sequences, FiniteSets, TLC

\* ---------------------------------------------------------------- bounds
\* Number of lines the input source delivers before the model stops reading.
MaxTurns == 2

\* Number of calls made directly on a state object.
MaxCalls == 3

\* ------------------------------------------------------ values and inputs
\* Handler return codes (i32): the engine matches LOAD and treats every other
\* value alike.
TICK == "TICK"
LOAD == "LOAD"
OTHERWISE == "OTHER"
RetCodes == {TICK, LOAD, OTHERWISE}

\* Option::None of Loader.scenario
None == "None"

\* The scenario objects of the game: Start is the one handed to GameMaster::new.
Scenarios == {"start", "second"}

\* Names under which commands are registered.
ExitName == <<"e", "x", "i", "t">>
GoName == <<"g", "o">>
CommandNames == {ExitName, GoName}

\* Command handlers: Exit is the example's (it ends the process); Any is an
\* arbitrary GameCommand implementation.
CommandKinds == {"Exit", "Any"}

\* Raw lines the input source may deliver.
Lines ==
  { ExitName,
    <<" ", "e", "x", "i", "t", " ">>,
    GoName,
    <<"g", "o", " ", "x">>,
    <<"t", "i", "c", "k">>,
    <<>> }

Whitespace == {" ", "\t"}

\* str::trim: remove leading and trailing whitespace.
RECURSIVE TrimStart(_)
TrimStart(s) ==
  IF s # <<>> /\ Head(s) \in Whitespace THEN TrimStart(Tail(s)) ELSE s

RECURSIVE TrimEnd(_)
TrimEnd(s) ==
  IF s # <<>> /\ s[Len(s)] \in Whitespace
  THEN TrimEnd(SubSeq(s, 1, Len(s) - 1))
  ELSE s

\* Variant of str::trim: only leading whitespace is removed.
TrimStartOnly(s) == TrimStart(s)

Trim(s) == TrimEnd(TrimStart(s))

\* ------------------------------------------------------------------ state
VARIABLES
  pc,          \* position of the engine in start_game/main_loop
  current,     \* GameMaster.current
  target,      \* Loader.scenario
  commands,    \* GameMaster.commands: name -> handler
  line,        \* main_loop's `command`: the line read this turn
  state,       \* the game state handed to the handlers (a BasicState)
  inputOpen,   \* the input source has not reported end of input
  turn,        \* history: lines read so far
  loads,       \* history: calls of Scenario::load so far
  loaded,      \* history: scenario whose load was called last
  selfReloadOnly, \* history: every turn so far was a non-command line that
               \* the start scenario answered with LOAD and itself as target
  log,         \* history: the read and the handler calls of the current turn
  lastInsert   \* history: the last add_command call (name, handler and, until
               \* the game starts, the handler it replaced)

vars == <<pc, current, target, commands, line, state, inputOpen,
          turn, loads, loaded, selfReloadOnly, log, lastInsert>>

\* --------------------------------------------------------------- BasicState
\* An empty HashMap.
EmptyMap == [k \in {} |-> FALSE]

\* Variant of BasicState::new: nothing is pending.
BasicState_new_no_pending ==
  [flags |-> EmptyMap, values |-> EmptyMap, current |-> "", loader |-> ""]

BasicState_new ==
  [flags |-> EmptyMap, values |-> EmptyMap, current |-> "", loader |-> "start"]

\* Variant of BasicState::clear: the current scenario name is kept.
BasicState_clear_keeps_current(s) ==
  [s EXCEPT !.flags = EmptyMap, !.values = EmptyMap, !.loader = "start"]

BasicState_clear(s) ==
  [s EXCEPT !.flags = EmptyMap, !.values = EmptyMap,
            !.current = "", !.loader = "start"]

BasicState_set_scenario(s, name) == [s EXCEPT !.loader = name]

BasicState_has_next_scenario(s) == s.loader # ""

BasicState_get_current_scenario(s) == s.current

BasicState_get_next_scenario(s) == s.loader

\* Variant of BasicState::load_scenario: the pending name is not cleared.
BasicState_load_scenario_keeps_pending(s) == [s EXCEPT !.current = s.loader]

BasicState_load_scenario(s) == [s EXCEPT !.current = s.loader, !.loader = ""]

\* ------------------------------------------------------------------- Loader
\* Loader::set_scenario stores Some(scenario).
Loader_set_scenario(old, scenario) == scenario

\* Loader::get_scenario unwraps the Option: it panics on None.
Loader_get_scenario_panics(t) == t = None

\* ------------------------------------------------------- handler effects
\* What one handler call may do with the two cells it is handed (the Loader
\* and the state) and what it returns.  A handler reaches the Loader through
\* set_scenario; its field is public, so a handler may also store None.
LoaderApiOps == {"keep"} \cup Scenarios
LoaderRawOps == LoaderApiOps \cup {None}
StateOps == {"none", "load_scenario", "clear", "set_start", "set_second"}

Effects(loaderOps) ==
  [tgt : loaderOps, st : StateOps, ret : RetCodes, called : {TRUE}, exits : {FALSE}]

\* exec_game_command's answer when no command has the name: TICK, no call.
NoCommand ==
  [tgt |-> "keep", st |-> "none", ret |-> TICK, called |-> FALSE, exits |-> FALSE]

\* Variant of Exit::execute: a command that prints and returns TICK.
Exit_execute_returns ==
  [tgt |-> "keep", st |-> "none", ret |-> TICK, called |-> TRUE, exits |-> FALSE]

\* Exit::execute of the example: process::exit(0), the call never returns.
Exit_execute ==
  [tgt |-> "keep", st |-> "none", ret |-> TICK, called |-> TRUE, exits |-> TRUE]

HandlerLoader(old, op) ==
  IF op = "keep" THEN old
  ELSE IF op = None THEN None
  ELSE Loader_set_scenario(old, op)

HandlerState(s, op) ==
  CASE op = "load_scenario" -> BasicState_load_scenario(s)
    [] op = "clear"         -> BasicState_clear(s)
    [] op = "set_start"     -> BasicState_set_scenario(s, "start")
    [] op = "set_second"    -> BasicState_set_scenario(s, "second")
    [] OTHER                -> s

\* The two cells after a handler call with effect e.
ApplyEffect(e) ==
  /\ target' = HandlerLoader(target, e.tgt)
  /\ state' = HandlerState(state, e.st)

\* A log entry: the call, the handler called, the text passed, the value
\* returned, GameMaster.current during the call.
Event(op, who, arg, ret, cur) ==
  [op |-> op, who |-> who, arg |-> arg, ret |-> ret, cur |-> cur]

\* ---------------------------------------------------------------- GameMaster
\* The history of add_command before its first call.
NoInsert == [name |-> <<>>, kind |-> None, old |-> None]

\* Variant of GameMaster::new: the Loader is left as Loader::new() made it.
InitEmptyLoader ==
  /\ pc = "new"
  /\ current = "start"
  /\ target = None
  /\ commands = [n \in {} |-> "Any"]
  /\ line = <<>>
  /\ state = BasicState_new
  /\ inputOpen = TRUE
  /\ turn = 0
  /\ loads = 0
  /\ loaded = None
  /\ selfReloadOnly = TRUE
  /\ log = <<>>
  /\ lastInsert = NoInsert

\* GameMaster::new(state, start) with a fresh BasicState.
Init ==
  /\ pc = "new"
  /\ current = "start"
  /\ target = Loader_set_scenario(None, "start")
  /\ commands = [n \in {} |-> "Any"]
  /\ line = <<>>
  /\ state = BasicState_new
  /\ inputOpen = TRUE
  /\ turn = 0
  /\ loads = 0
  /\ loaded = None
  /\ selfReloadOnly = TRUE
  /\ log = <<>>
  /\ lastInsert = NoInsert

\* Variant of HashMap::insert: an existing entry is kept.
HashMap_insert_keeps_old(m, k, v) ==
  [n \in DOMAIN m \cup {k} |-> IF n \in DOMAIN m THEN m[n] ELSE v]

\* HashMap::insert: the value replaces the one the key had.
HashMap_insert(m, k, v) ==
  [n \in DOMAIN m \cup {k} |-> IF n = k THEN v ELSE m[n]]

\* GameMaster::add_command
AddCommand(name, kind) ==
  /\ pc = "new"
  /\ commands' = HashMap_insert(commands, name, kind)
  /\ lastInsert' = [name |-> name, kind |-> kind,
                     old |-> IF name \in DOMAIN commands THEN commands[name] ELSE None]
  /\ UNCHANGED <<pc, current, target, line, state, inputOpen,
                 turn, loads, loaded, selfReloadOnly, log>>

\* The history of add_command once the game has started.
Started(ins) == [ins EXCEPT !.old = None]

\* A call of scen.load(&state, &loader) while the engine's current is cur.
ScenarioLoad(scen, cur, e) ==
  /\ ApplyEffect(e)
  /\ log' = Append(log, Event("load", scen, <<>>, e.ret, cur))
  /\ loads' = loads + 1
  /\ loaded' = scen

\* Variant of start_game: the loop is entered without loading the start
\* scenario.
StartGameNoLoad(ops) ==
  /\ pc = "new"
  /\ pc' = "input"
  /\ lastInsert' = Started(lastInsert)
  /\ UNCHANGED <<current, target, commands, line, state, inputOpen,
                 turn, loads, loaded, selfReloadOnly, log>>

\* start_game -> main_loop up to the loop: the start scenario is loaded and
\* the value load() returns is dropped.
StartGame(ops) ==
  /\ pc = "new"
  /\ \E e \in Effects(ops) : ScenarioLoad(current, current, e)
  /\ pc' = "input"
  /\ lastInsert' = Started(lastInsert)
  /\ UNCHANGED <<current, commands, line, inputOpen, turn, selfReloadOnly>>

\* Variant of the read: the engine points the Loader back at the current
\* scenario before each turn.
InputLineResetsLoader(l) ==
  /\ pc = "input"
  /\ inputOpen
  /\ turn < MaxTurns
  /\ line' = l
  /\ turn' = turn + 1
  /\ log' = <<Event("read", loaded, l, "-", current)>>
  /\ pc' = "cmd1"
  /\ target' = current
  /\ UNCHANGED <<current, commands, state, inputOpen, loads, loaded,
                 selfReloadOnly, lastInsert>>

\* linenoise::input returned Some(i)
InputLine(l) ==
  /\ pc = "input"
  /\ inputOpen
  /\ turn < MaxTurns
  /\ line' = l
  /\ turn' = turn + 1
  /\ log' = <<Event("read", loaded, l, "-", current)>>
  /\ pc' = "cmd1"
  /\ UNCHANGED <<current, target, commands, state, inputOpen, loads, loaded,
                 selfReloadOnly, lastInsert>>

\* Variant of the None arm: the loop body goes on with the line of the
\* previous turn instead of reading again.
InputNoneFallsThrough(eof) ==
  /\ pc = "input"
  /\ inputOpen' = (inputOpen /\ ~eof)
  /\ pc' = "cmd1"
  /\ UNCHANGED <<current, target, commands, line, state,
                 turn, loads, loaded, selfReloadOnly, log, lastInsert>>

\* linenoise::input returned None (a failed read, or the input has ended, and
\* then every later read returns None too): `continue`.
InputNone(eof) ==
  /\ pc = "input"
  /\ inputOpen' = (inputOpen /\ ~eof)
  /\ pc' = "input"
  /\ UNCHANGED <<current, target, commands, line, state,
                 turn, loads, loaded, selfReloadOnly, log, lastInsert>>

\* exec_game_command: the outcomes of looking the name up and executing it.
exec_game_command(cmd, ops) ==
  IF cmd \notin DOMAIN commands THEN {NoCommand}
  ELSE IF commands[cmd] = "Exit" THEN {Exit_execute}
  ELSE Effects(ops)

\* The log after exec_game_command(cmd) came out as o.
LogCommand(cmd, o) ==
  IF o.called
  THEN Append(log, Event("execute", commands[cmd], cmd,
                         IF o.exits THEN "exit" ELSE o.ret, current))
  ELSE log

\* master.rs:258: the first exec_game_command, its result dropped
ExecGameCommandDropped(ops) ==
  /\ pc = "cmd1"
  /\ \E o \in exec_game_command(Trim(line), ops) :
       /\ ApplyEffect(o)
       /\ log' = LogCommand(Trim(line), o)
       /\ pc' = IF o.exits THEN "exited" ELSE "cmd2"
  /\ UNCHANGED <<current, commands, line, inputOpen, turn, loads, loaded,
                 selfReloadOnly, lastInsert>>

\* Variant of the match on the second exec_game_command: the LOAD arm lacks
\* its `continue`, so the line goes on to the current scenario.
ExecGameCommandMatchedNoContinue(ops) ==
  /\ pc = "cmd2"
  /\ \E o \in exec_game_command(Trim(line), ops) :
       /\ ApplyEffect(o)
       /\ log' = LogCommand(Trim(line), o)
       /\ pc' = IF o.exits THEN "exited" ELSE "scen"
       /\ selfReloadOnly' = (selfReloadOnly /\ ~o.called)
  /\ UNCHANGED <<current, commands, line, inputOpen, turn, loads, loaded, lastInsert>>

\* master.rs:259-262: the second exec_game_command; LOAD loads and continues
ExecGameCommandMatched(ops) ==
  /\ pc = "cmd2"
  /\ \E o \in exec_game_command(Trim(line), ops) :
       /\ ApplyEffect(o)
       /\ log' = LogCommand(Trim(line), o)
       /\ pc' = IF o.exits THEN "exited"
                ELSE IF o.ret = LOAD THEN "load" ELSE "scen"
       /\ selfReloadOnly' = (selfReloadOnly /\ ~o.called)
  /\ UNCHANGED <<current, commands, line, inputOpen, turn, loads, loaded, lastInsert>>

\* exec_current_scenario and the match on its result (master.rs:265-268)
ExecCurrentScenario(ops) ==
  /\ pc = "scen"
  /\ \E e \in Effects(ops) :
       /\ ApplyEffect(e)
       /\ log' = Append(log, Event("do_action", current, Trim(Trim(line)), e.ret,
                                current))
       /\ pc' = IF e.ret = LOAD THEN "load" ELSE "input"
       /\ selfReloadOnly' =
            (selfReloadOnly /\ current = "start" /\ e.ret = LOAD /\ target' = "start")
  /\ UNCHANGED <<current, commands, line, inputOpen, turn, loads, loaded, lastInsert>>

\* Variant of load_scenario: a missing target is ignored and the current
\* scenario is loaded instead.
LoadScenarioIgnoresMissing(ops) ==
  /\ pc = "load"
  /\ LET t == IF target = None THEN current ELSE target IN
       /\ current' = t
       /\ \E e \in Effects(ops) : ScenarioLoad(t, t, e)
       /\ pc' = "input"
  /\ UNCHANGED <<commands, line, inputOpen, turn, selfReloadOnly, lastInsert>>

\* Variant of load_scenario: loading the scenario that is already current is
\* a no-op.
LoadScenarioSkipsReload(ops) ==
  /\ pc = "load"
  /\ IF Loader_get_scenario_panics(target)
     THEN /\ pc' = "panicked"
          /\ UNCHANGED <<current, target, state, log, loads, loaded, lastInsert>>
     ELSE IF target = current
     THEN /\ pc' = "input"
          /\ UNCHANGED <<current, target, state, log, loads, loaded, lastInsert>>
     ELSE /\ current' = target
          /\ \E e \in Effects(ops) : ScenarioLoad(target, target, e)
          /\ pc' = "input"
  /\ UNCHANGED <<commands, line, inputOpen, turn, selfReloadOnly, lastInsert>>

\* Variant of load_scenario: the target is loaded but self.current is not
\* replaced.
LoadScenarioKeepsCurrent(ops) ==
  /\ pc = "load"
  /\ IF Loader_get_scenario_panics(target)
     THEN /\ pc' = "panicked"
          /\ UNCHANGED <<current, target, state, log, loads, loaded, lastInsert>>
     ELSE /\ current' = current
          /\ \E e \in Effects(ops) : ScenarioLoad(target, current, e)
          /\ pc' = "input"
  /\ UNCHANGED <<commands, line, inputOpen, turn, selfReloadOnly, lastInsert>>

\* Variant of load_scenario: load is called first and self.current is
\* replaced when it has returned.
LoadScenarioCommitsAfter(ops) ==
  /\ pc = "load"
  /\ IF Loader_get_scenario_panics(target)
     THEN /\ pc' = "panicked"
          /\ UNCHANGED <<current, target, state, log, loads, loaded>>
     ELSE /\ \E e \in Effects(ops) : ScenarioLoad(target, current, e)
          /\ current' = target
          /\ pc' = "input"
  /\ UNCHANGED <<commands, line, inputOpen, turn, selfReloadOnly, lastInsert>>

\* GameMaster::load_scenario, its result dropped by main_loop
LoadScenario(ops) ==
  /\ pc = "load"
  /\ IF Loader_get_scenario_panics(target)
     THEN /\ pc' = "panicked"
          /\ UNCHANGED <<current, target, state, log, loads, loaded, lastInsert>>
     ELSE /\ current' = target
          /\ \E e \in Effects(ops) : ScenarioLoad(target, target, e)
          /\ pc' = "input"
  /\ UNCHANGED <<commands, line, inputOpen, turn, selfReloadOnly, lastInsert>>

Step(ops) ==
  \/ \E name \in CommandNames, kind \in CommandKinds : AddCommand(name, kind)
  \/ StartGame(ops)
  \/ \E l \in Lines : InputLine(l)
  \/ \E eof \in BOOLEAN : InputNone(eof)
  \/ ExecGameCommandDropped(ops)
  \/ ExecGameCommandMatched(ops)
  \/ ExecCurrentScenario(ops)
  \/ LoadScenario(ops)

\* Handlers that reach the Loader through set_scenario only.
Next == Step(LoaderApiOps)

Spec == Init /\ [][Next]_vars

\* Handlers that may also write the Loader's public field.
NextRaw == Step(LoaderRawOps)

SpecRaw == Init /\ [][NextRaw]_vars

\* ------------------------------------------- BasicState, called directly
\* Names handed to set_scenario.
StateNames == {"", "start", "second"}

\* The host calls a method of the state it created, before the game starts.
BasicStateSetScenario(name) ==
  /\ pc = "new"
  /\ Len(log) < MaxCalls
  /\ state' = BasicState_set_scenario(state, name)
  /\ log' = Append(log, Event("set_scenario", "BasicState", name, "-", current))
  /\ UNCHANGED <<pc, current, target, commands, line, inputOpen,
                 turn, loads, loaded, selfReloadOnly, lastInsert>>

BasicStateLoadScenario ==
  /\ pc = "new"
  /\ Len(log) < MaxCalls
  /\ state' = BasicState_load_scenario(state)
  /\ log' = Append(log, Event("load_scenario", "BasicState", "", "-", current))
  /\ UNCHANGED <<pc, current, target, commands, line, inputOpen,
                 turn, loads, loaded, selfReloadOnly, lastInsert>>

BasicStateClear ==
  /\ pc = "new"
  /\ Len(log) < MaxCalls
  /\ state' = BasicState_clear(state)
  /\ log' = Append(log, Event("clear", "BasicState", "", "-", current))
  /\ UNCHANGED <<pc, current, target, commands, line, inputOpen,
                 turn, loads, loaded, selfReloadOnly, lastInsert>>

NextBasicState ==
  \/ \E name \in StateNames : BasicStateSetScenario(name)
  \/ BasicStateLoadScenario
  \/ BasicStateClear

\* A fresh BasicState and any sequence of calls on it.
SpecBasicState == Init /\ [][NextBasicState]_vars

\* ------------------------------------- MyState of the example, called directly
MyState_new == [flags |-> EmptyMap]

\* MyState::clear: "in_start" is set to true (nothing is removed)
MyState_clear(s) == [s EXCEPT !.flags = HashMap_insert(s.flags, "in_start", TRUE)]

MyState_set_flag_true(s, name) ==
  [s EXCEPT !.flags = HashMap_insert(s.flags, name, TRUE)]

MyState_set_flag_false(s, name) ==
  [s EXCEPT !.flags = HashMap_insert(s.flags, name, FALSE)]

\* Variant of MyState::get_flag: a missing flag reads as true.
MyState_get_flag_default_true(s, name) ==
  IF name \in DOMAIN s.flags THEN s.flags[name] ELSE TRUE

\* MyState::get_flag: the value stored, false when there is none
MyState_get_flag(s, name) ==
  IF name \in DOMAIN s.flags THEN s.flags[name] ELSE FALSE

\* Flag names written, and read.
FlagNames == {"in_start", "door"}
ReadNames == FlagNames \cup {"never"}

\* MyState::new() in a game that is not started.
InitMyState ==
  /\ pc = "new"
  /\ current = "start"
  /\ target = Loader_set_scenario(None, "start")
  /\ commands = [n \in {} |-> "Any"]
  /\ line = <<>>
  /\ state = MyState_new
  /\ inputOpen = TRUE
  /\ turn = 0
  /\ loads = 0
  /\ loaded = None
  /\ selfReloadOnly = TRUE
  /\ log = <<>>
  /\ lastInsert = NoInsert

\* A call on the state object: the new state, and the call in the log.
MyStateCall(op, name, ret, new) ==
  /\ pc = "new"
  /\ Len(log) < MaxCalls
  /\ state' = new
  /\ log' = Append(log, Event(op, "MyState", name, ret, current))
  /\ UNCHANGED <<pc, current, target, commands, line, inputOpen,
                 turn, loads, loaded, selfReloadOnly, lastInsert>>

MyStateClear == MyStateCall("clear", "", "-", MyState_clear(state))

MyStateSetFlagTrue(name) ==
  MyStateCall("set_flag_true", name, "-", MyState_set_flag_true(state, name))

MyStateSetFlagFalse(name) ==
  MyStateCall("set_flag_false", name, "-", MyState_set_flag_false(state, name))

MyStateGetFlag(name) ==
  MyStateCall("get_flag", name, MyState_get_flag(state, name), state)

NextMyState ==
  \/ MyStateClear
  \/ \E name \in FlagNames : MyStateSetFlagTrue(name)
  \/ \E name \in FlagNames : MyStateSetFlagFalse(name)
  \/ \E name \in ReadNames : MyStateGetFlag(name)

\* A fresh MyState and any sequence of calls on it.
SpecMyState == InitMyState /\ [][NextMyState]_vars

TypeOK ==
  /\ pc \in {"new", "input", "cmd1", "cmd2", "scen", "load", "panicked", "exited"}
  /\ current \in Scenarios
  /\ target \in Scenarios \cup {None}
  /\ DOMAIN commands \subseteq CommandNames
  /\ line \in Lines
  /\ turn \in 0..MaxTurns
  /\ loads \in 0..(MaxTurns + 1)

\* ------------------------------------------------------------ properties
\* The log entries of the current turn that are calls of `op`.
Calls(op) == {i \in 1..Len(log) : log[i].op = op}

\* A line has been read this turn and its trimmed text is a command's name.
CommandTurn == turn > 0 /\ Trim(line) \in DOMAIN commands

\* A line has been read this turn and its trimmed text names no command.
ScenarioTurn == turn > 0 /\ Trim(line) \notin DOMAIN commands

\* C1: in a turn whose trimmed line is a registered command name, the command
\* is executed and the current scenario's do_action is not called, whatever
\* the command returns.
C1_CommandPreemptsScenario ==
  CommandTurn =>
    /\ Calls("do_action") = {}
    /\ pc # "cmd1" => Calls("execute") # {}

\* C2: in a turn whose trimmed line is a registered command name, the command
\* is executed exactly once: not at all before the lookup, once after it.
C2_ExecuteExactlyOnce ==
  CommandTurn =>
    Cardinality(Calls("execute")) = IF pc = "cmd1" THEN 0 ELSE 1

\* C3: a LOAD whose target is missing (the Loader holds None) halts the engine
\* with an error: no scenario is loaded in its place, the current scenario is
\* not changed, and afterwards nothing is read and no handler is called.
C3_MissingTargetHalts ==
  [][ /\ (pc = "load" /\ target = None) =>
           (pc' = "panicked" /\ log' = log /\ current' = current /\ loads' = loads)
      /\ pc = "panicked" => UNCHANGED vars ]_vars

C3_Witness ==
  /\ pc = "panicked"
  /\ target = None
  /\ log[Len(log)].ret = LOAD

\* C4: once the input source has reported the end of the input, the engine has
\* stopped and start_game has returned.
C4_EndOfInputStops == ~inputOpen => pc = "returned"

\* C5: after a turn's transition to N has been committed, the state's current
\* scenario is N, and N's load was called exactly once for that transition.
C5_StateFollowsTransition ==
  (pc = "input" /\ turn > 0 /\ log[Len(log)].op = "load") =>
    /\ BasicState_get_current_scenario(state) = log[Len(log)].who
    /\ Cardinality(Calls("load")) = 1

\* C6: a LOAD whose target is the current scenario calls its load again; when
\* every line so far was a non-command line that the start scenario answered
\* with LOAD and itself as target, load has been called once per line plus
\* once at startup.
C6_ReloadIsFull ==
  /\ []((pc = "input" /\ selfReloadOnly) =>
          (loads = turn + 1 /\ loaded = "start" /\ current = "start"))
  /\ [][(pc = "load" /\ target = current) =>
          (loads' = loads + 1 /\ loaded' = current /\ current' = current)]_vars

C6_Witness ==
  /\ pc = "input"
  /\ selfReloadOnly
  /\ turn = 2
  /\ loads = 3

\* C7: when a load call returns LOAD, the engine loads again before it reads
\* the next line: it never waits for input right after a load that returned
\* LOAD, at startup included.
C7_LoadOutcomeFollowed ==
  (pc = "input" /\ log # <<>> /\ log[Len(log)].op = "load") =>
    log[Len(log)].ret # LOAD

C9_LinesGoToLoadedScenario ==
  /\ []((ScenarioTurn /\ pc \in {"cmd1", "cmd2", "scen"}) =>
          Calls("do_action") = {})
  /\ []((ScenarioTurn /\ pc \in {"load", "input"}) =>
          /\ Cardinality(Calls("do_action")) = 1
          /\ \A i \in Calls("do_action") :
               /\ log[i].who = log[1].who
               /\ log[i].arg = Trim(line)
               /\ pc = "load" => (log[i].ret = LOAD /\ Len(log) = i))
  /\ []((ScenarioTurn /\ pc = "input") =>
          \A i \in Calls("do_action") :
            IF log[i].ret = LOAD
            THEN /\ Len(log) = i + 1
                 /\ log[i + 1].op = "load"
                 /\ log[i + 1].who = loaded
                 /\ current = loaded
            ELSE /\ Len(log) = i
                 /\ loaded = log[1].who
                 /\ current = loaded)
  /\ [][(ScenarioTurn /\ pc = "load") =>
          (pc' = "input" /\ loaded' = target /\ current' = target)]_vars

C9_Witness ==
  /\ ScenarioTurn
  /\ pc = "input"
  /\ turn = 2
  /\ log[1].who = "second"
  /\ \E i \in Calls("do_action") : log[i].who = "second" /\ log[i].ret = LOAD
  /\ loaded = "start"

\* C10: start_game calls the start scenario's load exactly once before the
\* first line is read and before any command or do_action runs.
C10_StartLoadedFirst ==
  /\ pc = "new" => (loads = 0 /\ log = <<>> /\ turn = 0)
  /\ (pc # "new" /\ turn = 0) =>
       /\ loads = 1
       /\ Len(log) = 1
       /\ log[1].op = "load" /\ log[1].who = "start"
  /\ turn > 0 => (loads >= 1 /\ log[1].op = "read" /\ log[1].who # None)

C10_Witness ==
  /\ pc = "cmd1"
  /\ turn = 1
  /\ loads = 1
  /\ log[1].who = "start"

\* C11: a read that yields no line has no side effects: no handler is called
\* and the current scenario, the Loader's target, the commands, the state and
\* the line are unchanged; the engine is at the read again.
C11_NoLineNoEffect ==
  [][(pc = "input" /\ turn' = turn) =>
       /\ pc' = "input"
       /\ UNCHANGED <<current, target, commands, state, line, log, loads, loaded, lastInsert>>]_vars

C11_Witness ==
  /\ pc = "input"
  /\ ~inputOpen
  /\ turn = 1
  /\ loads = 2

\* This step is a call of `op` on the state object.
CalledOp(op) == Len(log') = Len(log) + 1 /\ log'[Len(log')].op = op

\* The call made last on the state object was `op`.
LastCall(op) == log # <<>> /\ log[Len(log)].op = op

\* load_scenario makes the pending name current and leaves nothing pending;
\* set_scenario makes its argument the pending name.
C12_LoadCommitsPending ==
  /\ CalledOp("load_scenario") =>
       /\ BasicState_get_current_scenario(state') = BasicState_get_next_scenario(state)
       /\ ~BasicState_has_next_scenario(state')
  /\ CalledOp("set_scenario") =>
       /\ BasicState_get_next_scenario(state') = log'[Len(log')].arg
       /\ BasicState_get_current_scenario(state') = BasicState_get_current_scenario(state)

C13_FreshState ==
  /\ log = <<>> =>
       /\ BasicState_get_current_scenario(state) = ""
       /\ BasicState_get_next_scenario(state) = "start"
       /\ BasicState_has_next_scenario(state)
  /\ (Len(log) = 1 /\ LastCall("load_scenario")) =>
       /\ BasicState_get_current_scenario(state) = "start"
       /\ ~BasicState_has_next_scenario(state)

C13_Witness ==
  /\ Len(log) = 1
  /\ LastCall("load_scenario")
  /\ BasicState_get_current_scenario(state) = "start"

C14_LastRegistrationWins ==
  /\ [](lastInsert # NoInsert =>
          /\ lastInsert.name \in DOMAIN commands
          /\ commands[lastInsert.name] = lastInsert.kind)
  /\ [][(pc = "new" /\ pc' = "new") =>
          /\ DOMAIN commands' = DOMAIN commands \cup {lastInsert'.name}
          /\ \A n \in DOMAIN commands \ {lastInsert'.name} :
               commands'[n] = commands[n]]_vars
  /\ [][pc # "new" => commands' = commands]_vars
  /\ []((CommandTurn /\ lastInsert # NoInsert /\ Trim(line) = lastInsert.name
         /\ pc # "cmd1") =>
          /\ Calls("execute") # {}
          /\ \A i \in Calls("execute") :
               log[i].who = lastInsert.kind /\ log[i].arg = lastInsert.name
          /\ (lastInsert.kind = "Exit") <=> (pc = "exited"))

C14_Witness ==
  /\ pc = "new"
  /\ lastInsert # NoInsert
  /\ lastInsert.old = "Any"
  /\ lastInsert.kind = "Exit"
  /\ commands[lastInsert.name] = "Exit"
  /\ Cardinality(DOMAIN commands) = 2

\* The value the calls in l wrote last for flag k: what set_flag_true or
\* set_flag_false stored, true for "in_start" after clear, false when k was
\* never written.
RECURSIVE LastWritten(_, _)
LastWritten(l, k) ==
  IF l = <<>> THEN FALSE
  ELSE LET e == l[Len(l)] IN
       IF e.op = "set_flag_true" /\ e.arg = k THEN TRUE
       ELSE IF e.op = "set_flag_false" /\ e.arg = k THEN FALSE
       ELSE IF e.op = "clear" /\ k = "in_start" THEN TRUE
       ELSE LastWritten(SubSeq(l, 1, Len(l) - 1), k)

\* C15: get_flag never fails; it returns false for a key that was never
\* written and otherwise the value written last for the key, both now and at
\* every get_flag call made so far.
C15_FlagDefaultAndLastWrite ==
  /\ \A k \in ReadNames :
       /\ MyState_get_flag(state, k) \in BOOLEAN
       /\ MyState_get_flag(state, k) = LastWritten(log, k)
  /\ \A i \in 1..Len(log) :
       log[i].op = "get_flag" =>
         log[i].ret = LastWritten(SubSeq(log, 1, i - 1), log[i].arg)

C15_Witness ==
  /\ Len(log) = 3
  /\ log[1].op = "set_flag_true" /\ log[1].arg = "door"
  /\ log[2].op = "set_flag_false" /\ log[2].arg = "door"
  /\ log[3].op = "get_flag" /\ log[3].arg = "never" /\ log[3].ret = FALSE
  /\ "door" \in DOMAIN state.flags
  /\ MyState_get_flag(state, "door") = FALSE

\* t is l without its leading and trailing whitespace: l is whitespace, then
\* t, then whitespace, and t neither starts nor ends with whitespace.
IsTrimOf(l, t) ==
  /\ t = <<>> \/ (t[1] \notin Whitespace /\ t[Len(t)] \notin Whitespace)
  /\ \E a \in 0..Len(l) :
       /\ a + Len(t) <= Len(l)
       /\ \A i \in 1..a : l[i] \in Whitespace
       /\ \A i \in 1..Len(t) : l[a + i] = t[i]
       /\ \A i \in (a + Len(t) + 1)..Len(l) : l[i] \in Whitespace

\* The registered names the line of this turn equals once it is trimmed.
Matched == {n \in DOMAIN commands : IsTrimOf(line, n)}

\* C16: a line that equals a registered name after its leading and trailing
\* whitespace is removed is dispatched to that command; a line that only
\* contains or starts with a name is not; do_action always gets the trimmed
\* line.
C16_TrimmedExactMatch ==
  turn > 0 =>
    /\ (Matched # {} /\ pc # "cmd1") => Calls("execute") # {}
    /\ \A i \in Calls("execute") : log[i].arg \in Matched
    /\ \A i \in Calls("do_action") : IsTrimOf(line, log[i].arg)

C16_Witness ==
  /\ turn > 0
  /\ line = <<" ", "e", "x", "i", "t", " ">>
  /\ \E i \in Calls("execute") : log[i].arg = ExitName
  /\ \E i \in Calls("do_action") : log[i].arg = ExitName

\* C17 (as stated): while the load of a LOAD's target runs, the engine's
\* current scenario is still the one that was current when the line was read.
C17_CurrentCommittedAfterLoad ==
  turn > 0 => \A i \in Calls("load") : log[i].cur = log[1].cur

\* C17 (amended): load_scenario first makes the Loader's target the engine's
\* current scenario and then calls its load: while load runs, the engine's
\* current scenario is already the scenario being loaded, and it still is
\* when the next line is read.
C17_CurrentCommittedBeforeLoad ==
  /\ \A i \in Calls("load") : log[i].cur = log[i].who
  /\ (pc = "input" /\ LastCall("load")) => current = log[Len(log)].who

C17_Witness ==
  /\ turn > 0
  /\ pc = "input"
  /\ \E i \in Calls("load") :
       /\ log[i].who # log[1].cur
       /\ log[i].cur = log[i].who
       /\ current = log[i].who

HandlerStep ==
  /\ Len(log') = Len(log) + 1
  /\ log'[Len(log')].op \in {"load", "execute", "do_action"}

\* C20: the Loader's target changes only in a handler call, never by the
\* engine itself; a LOAD loads the target as the handlers left it, whenever it
\* was set; and when the target is still the scenario loaded last, the LOAD
\* loads that scenario again.
C20_LoaderTargetOnlyHandlers ==
  [][ /\ target' # target => HandlerStep
      /\ pc = "load" =>
           /\ HandlerStep
           /\ log'[Len(log')].op = "load" /\ log'[Len(log')].who = target
           /\ loaded' = target /\ current' = target
           /\ loads' = loads + 1
      /\ (pc = "load" /\ target = loaded) => loaded' = loaded ]_vars

C20_Witness ==
  /\ pc = "load"
  /\ turn = 2
  /\ LastCall("do_action")
  /\ log[1].who = "start"
  /\ current = "start"
  /\ target = "second"

\* The command named by this turn's line has been executed for the second
\* time (master.rs:259, the call whose result is matched) and returned LOAD.
CommandLoad ==
  /\ CommandTurn
  /\ Len(log) >= 3
  /\ log[3].op = "execute"
  /\ log[3].ret = LOAD

\* C21: in a turn whose matched command lookup returned LOAD, the engine loads
\* the Loader's target and makes it current, and no do_action is called in that
\* turn, neither of the scenario that was active nor of the one loaded; right
\* after the load the engine is at the read again, and the do_action calls of
\* any turn go to the scenario that was loaded last when its line was read.
C21_CommandLoadSkipsDispatch ==
  /\ [](CommandLoad =>
          /\ Calls("do_action") = {}
          /\ pc \in {"load", "input"}
          /\ pc = "load" => Len(log) = 3
          /\ pc = "input" =>
               /\ Len(log) = 4
               /\ log[4].op = "load"
               /\ log[4].who = loaded
               /\ current = loaded)
  /\ [][(CommandLoad /\ pc = "load") =>
          /\ pc' = "input"
          /\ log' = Append(log, log'[4])
          /\ log'[4].op = "load" /\ log'[4].who = target
          /\ loaded' = target /\ current' = target]_vars
  /\ [][turn' = turn + 1 =>
          /\ log' = <<log'[1]>>
          /\ log'[1].op = "read" /\ log'[1].who = loaded
          /\ current = loaded]_vars
  /\ [](turn > 0 => \A i \in Calls("do_action") :
          log[i].who = log[1].who /\ log[i].cur = log[1].who)

C21_Witness ==
  /\ CommandLoad
  /\ pc = "input"
  /\ turn = 1
  /\ log[1].who = "start"
  /\ loaded = "second"
  /\ current = "second"

====
